---- MODULE Spec2Model ----
(***************************************************************************)
(* Event-log ABI engine of web3.py (web3/utils/events.py): the argument    *)
(* filters and the filter builder, the topic normaliser, the exhaustive    *)
(* topic-set builder and the log decoder.                                  *)
(*                                                                         *)
(* Python values are records of one shape, so that any two of them can be  *)
(* compared: tag names the Python type, n holds an int or a bool, s the    *)
(* characters of a str, b the bytes of a bytes object and items the        *)
(* elements of a list or tuple (is_list_like does not tell them apart).    *)
(***************************************************************************)
EXTENDS Integers, Sequences, FiniteSets, TLC

\* ------------------------------------------------------------ bounds

\* match_any is called with at most this many values.
MaxAny == 2
\* normalize_topic_list is applied to sequences of at most this many positions.
MaxTopics == 3
\* A log entry carries at most this many topics.
MaxLogTopics == 3
\* An argument of construct_event_topic_set lists at most this many alternatives.
MaxAlt == 2

\* ------------------------------------------------------------ Python values

None == [tag |-> "None", n |-> 0, s |-> <<>>, b |-> <<>>, items |-> <<>>]
PyInt(i) == [tag |-> "int", n |-> i, s |-> <<>>, b |-> <<>>, items |-> <<>>]
PyBool(v) == [tag |-> "bool", n |-> IF v THEN 1 ELSE 0, s |-> <<>>, b |-> <<>>, items |-> <<>>]
PyStr(cs) == [tag |-> "str", n |-> 0, s |-> cs, b |-> <<>>, items |-> <<>>]
PyBytes(bs) == [tag |-> "bytes", n |-> 0, s |-> <<>>, b |-> bs, items |-> <<>>]
PyList(xs) == [tag |-> "list", n |-> 0, s |-> <<>>, b |-> <<>>, items |-> xs]

\* eth_utils.is_list_like: a list or a tuple, never a str or None.
is_list_like(v) == v.tag = "list"

\* All sequences over S of length at most n.
SeqsUpTo(S, n) == UNION {[1..k -> S] : k \in 0..n}

RECURSIVE Concat(_)
\* The concatenation of a sequence of sequences.
Concat(ss) == IF ss = <<>> THEN <<>> ELSE Head(ss) \o Concat(Tail(ss))

RECURSIVE Product(_)
\* The product of a sequence of numbers.
Product(ns) == IF ns = <<>> THEN 1 ELSE Head(ns) * Product(Tail(ns))

\* ------------------------------------------------------------ the ABI codec
\* eth_abi and eth_utils are libraries the module imports; they are modelled
\* at the level of bytes.

\* The ABI types of the model.
ABITypes == {"uint256", "bool", "string", "bytes", "bytes32", "uint256[]"}

\* eth_abi.abi.process_type: (base type, size suffix, array dimensions).
process_type(t) ==
    CASE t = "uint256" -> [base |-> "uint", sub |-> "256", arrlist |-> <<>>]
      [] t = "bool" -> [base |-> "bool", sub |-> "", arrlist |-> <<>>]
      [] t = "string" -> [base |-> "string", sub |-> "", arrlist |-> <<>>]
      [] t = "bytes" -> [base |-> "bytes", sub |-> "", arrlist |-> <<>>]
      [] t = "bytes32" -> [base |-> "bytes", sub |-> "32", arrlist |-> <<>>]
      [] t = "uint256[]" -> [base |-> "uint", sub |-> "256", arrlist |-> << <<>> >>]

is_dynamic_sized_type(_type) ==
    LET p == process_type(_type)
    IN  IF p.arrlist # <<>> THEN TRUE
        ELSE IF p.base = "string" THEN TRUE
        ELSE IF p.base = "bytes" /\ p.sub = "" THEN TRUE
        ELSE FALSE

\* The UTF-8 code of the characters that occur in the model's texts.
Ord(c) ==
    CASE c = "a" -> 97 [] c = "b" -> 98 [] c = "c" -> 99 [] c = "e" -> 101
      [] c = "g" -> 103 [] c = "i" -> 105 [] c = "l" -> 108 [] c = "n" -> 110
      [] c = "o" -> 111 [] c = "p" -> 112 [] c = "r" -> 114 [] c = "s" -> 115
      [] c = "t" -> 116 [] c = "u" -> 117 [] c = "y" -> 121 [] c = "E" -> 69
      [] c = "2" -> 50 [] c = "3" -> 51 [] c = "5" -> 53 [] c = "6" -> 54
      [] c = "(" -> 40 [] c = ")" -> 41 [] c = "," -> 44 [] c = "[" -> 91
      [] c = "]" -> 93

\* str.encode('utf-8') on those characters.
Utf8(cs) == [i \in 1..Len(cs) |-> Ord(cs[i])]

\* A 32-byte big-endian word (the model's integers stay below 2^31).
Word32(n) == [i \in 1..32 |-> IF i < 29 THEN 0 ELSE (n \div (256 ^ (32 - i))) % 256]

\* Zero padding on the right to a multiple of 32 bytes.
PadRight(bs) == bs \o [i \in 1..((32 - (Len(bs) % 32)) % 32) |-> 0]

\* Whether eth_abi accepts the value for the type (else it raises EncodingError).
is_encodable(t, v) ==
    CASE t = "uint256" -> v.tag = "int" /\ v.n >= 0
      [] t = "bool" -> v.tag = "bool"
      [] t = "string" -> v.tag = "str"
      [] t = "bytes" -> v.tag = "bytes"
      [] t = "bytes32" -> v.tag = "bytes" /\ Len(v.b) <= 32
      [] t = "uint256[]" ->
            /\ v.tag = "list"
            /\ \A i \in 1..Len(v.items) : v.items[i].tag = "int" /\ v.items[i].n >= 0

\* eth_abi.encode_single on an encodable value: the encoder of the type itself,
\* with no tuple head in front.
encode_single(t, v) ==
    CASE t = "uint256" -> Word32(v.n)
      [] t = "bool" -> Word32(v.n)
      [] t = "string" -> Word32(Len(v.s)) \o PadRight(Utf8(v.s))
      [] t = "bytes" -> Word32(Len(v.b)) \o PadRight(v.b)
      [] t = "bytes32" -> PadRight(v.b)
      [] t = "uint256[]" ->
            Word32(Len(v.items))
                \o Concat([i \in 1..Len(v.items) |-> Word32(v.items[i].n)])

\* Keccak-256 as a perfect hash: the digest is the pre-image behind a marker
\* that is no byte, so two digests are equal only for equal pre-images and no
\* digest equals an ABI encoding.
keccak(bs) == <<256>> \o bs

HexDigits == <<"0", "1", "2", "3", "4", "5", "6", "7", "8", "9", "a", "b", "c", "d", "e", "f">>

HexDigit(d) == HexDigits[d + 1]

\* eth_utils.encode_hex, and eth_utils.to_hex on bytes: "0x" and two hex digits
\* a byte; the digest marker renders as "#".
encode_hex(bs) ==
    PyStr(<<"0", "x">> \o
          [j \in 1..(2 * Len(bs)) |->
              LET x == bs[(j + 1) \div 2]
              IN  IF x = 256 THEN "#"
                  ELSE IF j % 2 = 1 THEN HexDigit(x \div 16) ELSE HexDigit(x % 16)])

\* The outcome of a call: the value returned, or the exception raised.
Ok(v) == [raised |-> "", value |-> v]
Raise(e) == [raised |-> e, value |-> None]

\* eth_utils.to_hex on the values the module passes it: bytes render as
\* encode_hex does, and a list is an unsupported type.
to_hex(primitive) ==
    IF primitive.tag = "bytes" THEN Ok(encode_hex(primitive.b))
    ELSE Raise("TypeError")

\* ------------------------------------------------------------ event descriptors

Input(name, type, indexed) == [name |-> name, type |-> type, indexed |-> indexed]

Event(name, anonymous, inputs) == [name |-> name, anonymous |-> anonymous, inputs |-> inputs]

\* The event descriptors of the model: one or two inputs, static and dynamic
\* types, anonymous or not, and two whose indexed and data names collide.
EventABIs ==
    { Event(<<"E", "a">>, FALSE, <<Input("a", "uint256", TRUE), Input("b", "string", TRUE)>>),
      Event(<<"E", "b">>, FALSE, <<Input("a", "string", TRUE), Input("b", "string", FALSE)>>),
      Event(<<"E", "c">>, TRUE, <<Input("a", "uint256[]", TRUE), Input("b", "uint256", FALSE)>>),
      Event(<<"E", "e">>, TRUE, <<Input("a", "bytes32", TRUE)>>),
      Event(<<"E", "g">>, FALSE, <<Input("a", "uint256", TRUE), Input("a", "string", FALSE)>>),
      Event(<<"E", "i">>, TRUE, <<Input("a", "uint256", TRUE), Input("a", "uint256", FALSE)>>),
      Event(<<"E", "l">>, FALSE, <<Input("a", "bytes", TRUE)>>) }

\* The values a caller passes for a parameter of the type: two that encode ...
GoodValues(t) ==
    CASE t = "uint256" -> {PyInt(1), PyInt(258)}
      [] t = "bool" -> {PyBool(TRUE), PyBool(FALSE)}
      [] t = "string" -> {PyStr(<<>>), PyStr(<<"p", "i">>)}
      [] t = "bytes" -> {PyBytes(<<1>>), PyBytes(<<1, 2>>)}
      [] t = "bytes32" -> {PyBytes(<<1>>), PyBytes(<<1, 2>>)}
      [] t = "uint256[]" -> {PyList(<<PyInt(1)>>), PyList(<<PyInt(1), PyInt(2)>>)}

\* ... and one that eth_abi rejects.
BadValue(t) == IF t = "uint256" THEN PyStr(<<"a">>) ELSE PyInt(1)

CallValues(t) == GoodValues(t) \cup {BadValue(t)}

\* The characters of a type name, for the canonical signature.
TypeChars(t) ==
    CASE t = "uint256" -> <<"u", "i", "n", "t", "2", "5", "6">>
      [] t = "bool" -> <<"b", "o", "o", "l">>
      [] t = "string" -> <<"s", "t", "r", "i", "n", "g">>
      [] t = "bytes" -> <<"b", "y", "t", "e", "s">>
      [] t = "bytes32" -> <<"b", "y", "t", "e", "s", "3", "2">>
      [] t = "uint256[]" -> <<"u", "i", "n", "t", "2", "5", "6", "[", "]">>

\* name(type1,type2,...)
event_signature(event_abi) ==
    LET ins == event_abi.inputs
    IN  event_abi.name \o <<"(">>
            \o Concat([i \in 1..Len(ins) |->
                    (IF i = 1 THEN <<>> ELSE <<",">>) \o TypeChars(ins[i].type)])
            \o <<")">>

\* eth_utils.event_abi_to_log_topic: the Keccak-256 hash of the signature.
event_abi_to_log_topic(event_abi) == keccak(Utf8(event_signature(event_abi)))

\* ------------------------------------------------------------ dicts
\* A dict is the sequence of its [key, value] items in insertion order.

HasKey(d, k) == \E i \in 1..Len(d) : d[i].key = k

\* d[k] = v: a new key goes last, a known key keeps its place.
DictSet(d, k, v) ==
    IF HasKey(d, k)
    THEN [i \in 1..Len(d) |-> IF d[i].key = k THEN [key |-> k, value |-> v] ELSE d[i]]
    ELSE Append(d, [key |-> k, value |-> v])

RECURSIVE to_dict(_)
\* dict(pairs): a later pair of the same key replaces the value.
to_dict(pairs) ==
    IF pairs = <<>> THEN <<>>
    ELSE LET last == pairs[Len(pairs)]
         IN  DictSet(to_dict(SubSeq(pairs, 1, Len(pairs) - 1)), last.key, last.value)

\* ------------------------------------------------------------ the topic normaliser

\* Mutant: a list holding only a wildcard is left wrapped.
pop_singlets_KeepsWrappedNone(seq) ==
    [i \in 1..Len(seq) |->
        IF is_list_like(seq[i]) /\ Len(seq[i].items) = 1 /\ seq[i].items[1] # None
        THEN seq[i].items[1] ELSE seq[i]]

pop_singlets(seq) ==
    [i \in 1..Len(seq) |->
        IF is_list_like(seq[i]) /\ Len(seq[i].items) = 1 THEN seq[i].items[1] ELSE seq[i]]

RECURSIVE trailing_index(_, _, _)
\* The while loop of remove_trailing_from_seq.
trailing_index(seq, index, remove_value) ==
    IF index > 0 /\ seq[index] = remove_value
    THEN trailing_index(seq, index - 1, remove_value)
    ELSE index

\* Mutant: "if" for "while", at most one trailing value is removed.
remove_trailing_from_seq_IfForWhile(seq, remove_value) ==
    IF Len(seq) > 0 /\ seq[Len(seq)] = remove_value THEN SubSeq(seq, 1, Len(seq) - 1) ELSE seq

remove_trailing_from_seq(seq, remove_value) ==
    SubSeq(seq, 1, trailing_index(seq, Len(seq), remove_value))

normalize_topic_list(seq) == remove_trailing_from_seq(pop_singlets(seq), None)

\* ------------------------------------------------------------ ArgumentFilter

ArgumentFilter(arg_type, name, indexed) ==
    [arg_type |-> arg_type,
     is_indexed |-> indexed,
     raw_match_values |-> <<None>>,
     encoded_match_values |-> <<None>>,
     is_dynamic |-> is_dynamic_sized_type(arg_type)]

_normalize(value) == value

\* Mutant: the hash of the indexed dynamic case is left out.
_encode_NeverHashes(self, value) ==
    IF ~is_encodable(self.arg_type, value) THEN Raise("EncodingError")
    ELSE to_hex(PyBytes(encode_single(self.arg_type, value)))

_encode(self, value) ==
    IF ~is_encodable(self.arg_type, value) THEN Raise("EncodingError")
    ELSE LET encoded_value == encode_single(self.arg_type, value)
         IN  IF self.is_indexed /\ self.is_dynamic
             THEN to_hex(PyBytes(keccak(encoded_value)))
             ELSE to_hex(PyBytes(encoded_value))

\* The filter after match_single(value), and the exception if it raised
\* (the assignments come after the encoding, so a raise changes nothing).
match_single(self, value) ==
    LET normalized == _normalize(value)
        encoded == _encode(self, normalized)
    IN  IF encoded.raised # "" THEN [self |-> self, raised |-> encoded.raised]
        ELSE [self |-> [self EXCEPT !.raw_match_values = <<normalized>>,
                                    !.encoded_match_values = <<encoded.value>>],
              raised |-> ""]

\* Mutant: the assignment of encoded_match_values is left out.
match_any_KeepsEncoded(self, values) ==
    LET normalized == [i \in 1..Len(values) |-> _normalize(values[i])]
        encoded == [i \in 1..Len(normalized) |-> _encode(self, normalized[i])]
    IN  IF \E i \in 1..Len(encoded) : encoded[i].raised # ""
        THEN [self |-> self, raised |-> "EncodingError"]
        ELSE [self |-> [self EXCEPT !.raw_match_values = normalized], raised |-> ""]

\* The filter after match_any(*values).
match_any(self, values) ==
    LET normalized == [i \in 1..Len(values) |-> _normalize(values[i])]
        encoded == [i \in 1..Len(normalized) |-> _encode(self, normalized[i])]
    IN  IF \E i \in 1..Len(encoded) : encoded[i].raised # ""
        THEN [self |-> self, raised |-> "EncodingError"]
        ELSE [self |-> [self EXCEPT !.raw_match_values = normalized,
                                    !.encoded_match_values =
                                        [i \in 1..Len(encoded) |-> encoded[i].value]],
              raised |-> ""]

\* ------------------------------------------------------------ EventFilterBuilder

VARIABLES
    event_abi,      \* the descriptor the builder was made for
    event_topic,    \* EventFilterBuilder.event_topic
    args,           \* EventFilterBuilder.args: name -> ArgumentFilter
    fromBlock,      \* EventFilterBuilder.fromBlock
    toBlock,        \* EventFilterBuilder.toBlock
    address,        \* EventFilterBuilder.address
    last_call,      \* history: per filter, the values of its latest call that returned
    ntl_seq,        \* the argument of normalize_topic_list
    ntl_once,       \* normalize_topic_list(ntl_seq)
    ntl_twice,      \* normalize_topic_list(normalize_topic_list(ntl_seq))
    log_entry,      \* the log entry given to get_event_data
    decoded,        \* get_event_data(event_abi, log_entry)
    arguments,      \* the arguments given to construct_event_topic_set
    topic_set       \* construct_event_topic_set(event_abi, arguments)

builder_vars == <<event_abi, event_topic, args, fromBlock, toBlock, address, last_call>>

ntl_vars == <<ntl_seq, ntl_once, ntl_twice>>

decode_vars == <<log_entry, decoded>>

topic_set_vars == <<arguments, topic_set>>

vars == <<builder_vars, ntl_vars, decode_vars, topic_set_vars>>

\* A result not computed yet, and a computed one.
NotDone == [done |-> FALSE, raised |-> "", value |-> <<>>]

Done(outcome) == [done |-> TRUE, raised |-> outcome.raised, value |-> outcome.value]

is_indexed(arg) == arg.is_indexed = TRUE

not_indexed(arg) == ~is_indexed(arg)

_initial_event_topic(abi) ==
    IF abi.anonymous = FALSE THEN PyBytes(event_abi_to_log_topic(abi)) ELSE PyList(<<>>)

_init_argument_filters(abi) ==
    to_dict([i \in 1..Len(abi.inputs) |->
        [key |-> abi.inputs[i].name,
         value |-> ArgumentFilter(abi.inputs[i].type, abi.inputs[i].name, abi.inputs[i].indexed)]])

is_not_None(v) == v # None

\* The predicates handed to valfilter, by name.
apply(pred, v) ==
    CASE pred = "is_indexed" -> is_indexed(v)
      [] pred = "not_indexed" -> not_indexed(v)
      [] pred = "is_not_None" -> is_not_None(v)

\* toolz.valfilter: the items whose value satisfies the predicate.
valfilter(pred, d) == SelectSeq(d, LAMBDA e : apply(pred, e.value))

\* indexed_args and data_args hold the filter objects of args themselves, so
\* they are read through args.
indexed_args == valfilter("is_indexed", args)

data_args == valfilter("not_indexed", args)

\* The topics property: its value, or what it raises.
topics ==
    LET arg_topics == [i \in 1..Len(indexed_args) |->
                          PyList(indexed_args[i].value.encoded_match_values)]
        head == to_hex(event_topic)
    IN  IF head.raised # "" THEN Raise(head.raised)
        ELSE Ok(PyList(normalize_topic_list(<<head.value>> \o arg_topics)))

\* The filter_params property, a dict, or what it raises.
filter_params ==
    IF topics.raised # "" THEN [raised |-> topics.raised, value |-> <<>>]
    ELSE LET params == << [key |-> "topics", value |-> topics.value],
                          [key |-> "fromBlock", value |-> fromBlock],
                          [key |-> "toBlock", value |-> toBlock],
                          [key |-> "address", value |-> address] >>
         IN  [raised |-> "", value |-> valfilter("is_not_None", params)]

\* Iterating a dict yields its keys: here the argument names, which are str.
dict_iter(d) == [i \in 1..Len(d) |-> PyStr(<<d[i].key>>)]

\* arg.encoded_match_values: an ArgumentFilter has the attribute, any other
\* object (a str) has not and the access raises AttributeError.
get_encoded_match_values(arg) ==
    IF "encoded_match_values" \in DOMAIN arg THEN Ok(PyList(arg.encoded_match_values))
    ELSE Raise("AttributeError")

\* The data_arguments property: its value, or what it raises. The generator
\* runs over self.data_args itself, not over its values().
data_arguments ==
    LET elements == dict_iter(data_args)
        entries == [i \in 1..Len(elements) |-> get_encoded_match_values(elements[i])]
        failed == {i \in 1..Len(entries) : entries[i].raised # ""}
    IN  IF failed # {}
        THEN Raise(entries[CHOOSE i \in failed : \A j \in failed : i <= j].raised)
        ELSE Ok(PyList([i \in 1..Len(entries) |-> entries[i].value]))

\* What a caller assigns to fromBlock and toBlock, and to address.
BlockValues == {None, PyInt(0)}

AddressValues == {None, PyStr(<<"0", "x", "a", "b">>)}

\* EventFilterBuilder(event_abi), for one of the descriptors abis.
InitBuilder(abis) ==
    /\ event_abi \in abis
    /\ event_topic = _initial_event_topic(event_abi)
    /\ args = _init_argument_filters(event_abi)
    /\ fromBlock = None
    /\ toBlock = None
    /\ address = None
    /\ last_call = [i \in 1..Len(args) |-> [called |-> FALSE, values |-> <<>>]]

\* builder.args[name].match_single(value)
MatchSingle ==
    \E k \in 1..Len(args) : \E value \in CallValues(args[k].value.arg_type) :
        \E r \in {match_single(args[k].value, value)} :
            /\ args' = [args EXCEPT ![k].value = r.self]
            /\ last_call' = IF r.raised = ""
                            THEN [last_call EXCEPT ![k] = [called |-> TRUE, values |-> <<value>>]]
                            ELSE last_call
            /\ UNCHANGED <<event_abi, event_topic, fromBlock, toBlock, address, ntl_vars, decode_vars, topic_set_vars>>

\* builder.args[name].match_any(*values)
MatchAny ==
    \E k \in 1..Len(args) : \E values \in SeqsUpTo(CallValues(args[k].value.arg_type), MaxAny) :
        \E r \in {match_any(args[k].value, values)} :
            /\ args' = [args EXCEPT ![k].value = r.self]
            /\ last_call' = IF r.raised = ""
                            THEN [last_call EXCEPT ![k] = [called |-> TRUE, values |-> values]]
                            ELSE last_call
            /\ UNCHANGED <<event_abi, event_topic, fromBlock, toBlock, address, ntl_vars, decode_vars, topic_set_vars>>

\* builder.fromBlock = value
SetFromBlock ==
    \E value \in BlockValues :
        /\ fromBlock' = value
        /\ UNCHANGED <<event_abi, event_topic, args, toBlock, address, last_call, ntl_vars, decode_vars, topic_set_vars>>

\* builder.toBlock = value
SetToBlock ==
    \E value \in BlockValues :
        /\ toBlock' = value
        /\ UNCHANGED <<event_abi, event_topic, args, fromBlock, address, last_call, ntl_vars, decode_vars, topic_set_vars>>

\* builder.address = value
SetAddress ==
    \E value \in AddressValues :
        /\ address' = value
        /\ UNCHANGED <<event_abi, event_topic, args, fromBlock, toBlock, last_call, ntl_vars, decode_vars, topic_set_vars>>

\* ------------------------------------------------------------ normalize_topic_list, applied

HexA == PyStr(<<"0", "x", "1">>)

HexB == PyStr(<<"0", "x", "2">>)

\* The topic positions given to normalize_topic_list: a wildcard, a value, a
\* list of values or wildcards, and lists nested in a list.
Positions ==
    { None, HexA, HexB,
      PyList(<<>>), PyList(<<HexA>>), PyList(<<None>>), PyList(<<HexA, HexB>>),
      PyList(<<None, HexA>>),
      PyList(<<PyList(<<HexA>>)>>), PyList(<<PyList(<<None>>)>>) }

IdleNormalize == ntl_seq = <<>> /\ ntl_once = NotDone /\ ntl_twice = NotDone

IdleDecode == log_entry = [topics |-> <<>>, data |-> None] /\ decoded = NotDone

\* The arguments of construct_event_topic_set: None, a list or a dict.
ArgsNone == [kind |-> "None", list |-> <<>>, dict |-> <<>>]

ArgsList(xs) == [kind |-> "list", list |-> xs, dict |-> <<>>]

ArgsDict(d) == [kind |-> "dict", list |-> <<>>, dict |-> d]

IdleTopicSet == arguments = ArgsNone /\ topic_set = NotDone

\* One descriptor, for the specifications that make no use of it.
AnyEvent == CHOOSE abi \in EventABIs : TRUE

InitNormalize ==
    /\ InitBuilder({AnyEvent})
    /\ ntl_seq \in SeqsUpTo(Positions, MaxTopics)
    /\ ntl_once = NotDone
    /\ ntl_twice = NotDone
    /\ IdleDecode
    /\ IdleTopicSet

\* normalize_topic_list(ntl_seq)
Normalize ==
    /\ ~ntl_once.done
    /\ ntl_once' = Done(Ok(normalize_topic_list(ntl_seq)))
    /\ UNCHANGED <<ntl_seq, ntl_twice, builder_vars, decode_vars, topic_set_vars>>

\* normalize_topic_list applied to its own result
NormalizeAgain ==
    /\ ntl_once.done
    /\ ~ntl_twice.done
    /\ ntl_twice' = Done(Ok(normalize_topic_list(ntl_once.value)))
    /\ UNCHANGED <<ntl_seq, ntl_once, builder_vars, decode_vars, topic_set_vars>>

NextNormalize == Normalize \/ NormalizeAgain

SpecNormalize == InitNormalize /\ [][NextNormalize]_vars

\* ------------------------------------------------------------ get_event_data

\* web3.utils.abi.get_indexed_event_inputs: the inputs that are indexed, in order.
get_indexed_event_inputs(abi) == SelectSeq(abi.inputs, LAMBDA arg : arg.indexed = TRUE)

\* web3.utils.abi.exclude_indexed_event_inputs: the other inputs, in order.
exclude_indexed_event_inputs(abi) == SelectSeq(abi.inputs, LAMBDA arg : arg.indexed = FALSE)

\* web3.utils.abi.normalize_event_input_types: type aliases are spelled out;
\* the model's types are canonical already.
normalize_event_input_types(inputs) == inputs

\* web3.utils.abi.get_abi_input_names
get_abi_input_names(inputs) == [i \in 1..Len(inputs) |-> inputs[i].name]

get_event_abi_types_for_decoding(event_inputs) ==
    [i \in 1..Len(event_inputs) |->
        IF event_inputs[i].indexed /\ is_dynamic_sized_type(event_inputs[i].type)
        THEN "bytes32"
        ELSE event_inputs[i].type]

\* Whether one byte string starts with another.
IsPrefix(p, bs) == Len(p) <= Len(bs) /\ SubSeq(bs, 1, Len(p)) = p

RECURSIVE SumLen(_)
SumLen(ss) == IF ss = <<>> THEN 0 ELSE Len(Head(ss)) + SumLen(Tail(ss))

\* eth_abi.encode_abi: the heads (a static value, or the offset of a dynamic
\* one) and then the tails of the dynamic values.
encode_abi(types, values) ==
    LET n == Len(types)
        tails == [i \in 1..n |->
                     IF is_dynamic_sized_type(types[i])
                     THEN encode_single(types[i], values[i]) ELSE <<>>]
        heads == [i \in 1..n |->
                     IF is_dynamic_sized_type(types[i])
                     THEN Word32(32 * n + SumLen(SubSeq(tails, 1, i - 1)))
                     ELSE encode_single(types[i], values[i])]
    IN  Concat(heads) \o Concat(tails)

\* The value tuples the decoder is tried on, one value per type.
ValueTuples(types) ==
    {vs \in [1..Len(types) -> UNION {GoodValues(ty) : ty \in ABITypes}] :
        \A i \in 1..Len(types) : vs[i] \in GoodValues(types[i])}

\* eth_abi.decode_abi as the inverse of encode_abi on the model's values: the
\* tuple whose encoding the data starts with (the decoder reads no further),
\* and a decoding error when there is none.
decode_abi(types, data) ==
    LET fits == {vs \in ValueTuples(types) : IsPrefix(encode_abi(types, vs), data)}
    IN  IF fits = {} THEN Raise("DecodingError")
        ELSE [raised |-> "", value |-> CHOOSE vs \in fits : TRUE]

\* eth_abi.decode_single on one 32-byte topic, for the static types a topic is
\* decoded with: a small word is its number, and a digest read as a number is
\* kept as the bytes it is read from.
decode_single(type, data) ==
    CASE type = "bytes32" -> Ok(PyBytes(data))
      [] type = "bool" ->
            IF data = Word32(0) THEN Ok(PyBool(FALSE))
            ELSE IF data = Word32(1) THEN Ok(PyBool(TRUE))
            ELSE Raise("DecodingError")
      [] OTHER ->
            IF \A i \in 1..Len(data) : data[i] < 256 /\ (i < 29 => data[i] = 0)
            THEN Ok(PyInt(data[29] * 16777216 + data[30] * 65536 + data[31] * 256 + data[32]))
            ELSE Ok([PyBytes(data) EXCEPT !.tag = "int.from_bytes"])

\* web3.utils.abi.map_abi_data with BASE_RETURN_NORMALIZERS: addresses are
\* checksummed; the model has no address type.
map_abi_data(types, data) == data

\* The byte strings a log's hex data may stand for.
HexDataBytes(abi) ==
    LET types == get_event_abi_types_for_decoding(exclude_indexed_event_inputs(abi))
    IN  {encode_abi(types, vs) : vs \in ValueTuples(types)} \cup {<<1>>}

\* web3.utils.encoding.hexstr_if_str(to_bytes, data): bytes are taken as they
\* are, a str must be the hex of some bytes.
hexstr_if_str_to_bytes(abi, data) ==
    IF data.tag = "bytes" THEN [raised |-> "", value |-> data.b]
    ELSE LET of == {bs \in HexDataBytes(abi) : encode_hex(bs) = data}
         IN  IF of = {} THEN [raised |-> "ValueError: not a hex string", value |-> <<>>]
             ELSE [raised |-> "", value |-> CHOOSE bs \in of : TRUE]

\* The names of the sequence, as a set.
NameSet(names) == {names[i] : i \in 1..Len(names)}

\* Mutant: the sanity check of the names is left out.
duplicate_names_NotChecked(abi) == {}

\* set(log_topic_names).intersection(log_data_names)
duplicate_names(abi) ==
    NameSet(get_abi_input_names(get_indexed_event_inputs(abi)))
        \cap NameSet(get_abi_input_names(exclude_indexed_event_inputs(abi)))

\* get_event_data from the topic types on, log_topics being the topics of the
\* indexed arguments.
decode_log(abi, log, log_topics) ==
    LET log_topics_abi == get_indexed_event_inputs(abi)
        log_topic_normalized_inputs == normalize_event_input_types(log_topics_abi)
        log_topic_types == get_event_abi_types_for_decoding(log_topic_normalized_inputs)
        log_topic_names == get_abi_input_names(log_topics_abi)
        log_data == hexstr_if_str_to_bytes(abi, log.data)
        log_data_abi == exclude_indexed_event_inputs(abi)
        log_data_normalized_inputs == normalize_event_input_types(log_data_abi)
        log_data_types == get_event_abi_types_for_decoding(log_data_normalized_inputs)
        log_data_names == get_abi_input_names(log_data_abi)
        decoded_log_data == decode_abi(log_data_types, log_data.value)
        decoded_topic_data == [i \in 1..Len(log_topic_types) |->
                                  decode_single(log_topic_types[i], log_topics[i])]
        event_args ==
            to_dict([i \in 1..Len(log_topic_names) |->
                        [key |-> log_topic_names[i],
                         value |-> map_abi_data(log_topic_types,
                             [j \in 1..Len(decoded_topic_data) |-> decoded_topic_data[j].value])[i]]]
                    \o [i \in 1..Len(log_data_names) |->
                        [key |-> log_data_names[i],
                         value |-> map_abi_data(log_data_types, decoded_log_data.value)[i]]])
    IN  IF Len(log_topics) # Len(log_topic_types) THEN Raise("ValueError: Expected log topics")
        ELSE IF log_data.raised # "" THEN Raise(log_data.raised)
        ELSE IF duplicate_names(abi) # {}
            THEN Raise("ValueError: Invalid Event ABI: duplicated argument names")
        ELSE IF decoded_log_data.raised # "" THEN Raise(decoded_log_data.raised)
        ELSE IF \E i \in 1..Len(decoded_topic_data) : decoded_topic_data[i].raised # ""
            THEN Raise("DecodingError")
        ELSE [raised |-> "", value |-> [args |-> event_args, event |-> abi.name]]

\* Mutant: the anonymous flag is not looked at.
get_event_data_IgnoresAnonymous(abi, log) ==
    IF log.topics = <<>>
    THEN Raise("MismatchedABI: Expected non-anonymous event to have 1 or more topics")
    ELSE IF event_abi_to_log_topic(abi) # log.topics[1]
    THEN Raise("MismatchedABI: The event signature did not match the provided ABI")
    ELSE decode_log(abi, log, Tail(log.topics))

get_event_data(abi, log) ==
    IF abi.anonymous THEN decode_log(abi, log, log.topics)
    ELSE IF log.topics = <<>>
    THEN Raise("MismatchedABI: Expected non-anonymous event to have 1 or more topics")
    ELSE IF event_abi_to_log_topic(abi) # log.topics[1]
    THEN Raise("MismatchedABI: The event signature did not match the provided ABI")
    ELSE decode_log(abi, log, Tail(log.topics))

\* The topics a log entry of the event may carry: the signature hash, a word
\* and the hash of a dynamic value.
TopicValues(abi) ==
    {event_abi_to_log_topic(abi), Word32(1), keccak(encode_single("string", PyStr(<<>>)))}

\* The data a log entry may carry: bytes or their hex, well-formed or cut
\* short, and a str that is no hex.
DataValues(abi) ==
    LET types == get_event_abi_types_for_decoding(exclude_indexed_event_inputs(abi))
        good == encode_abi(types, CHOOSE vs \in ValueTuples(types) : TRUE)
    IN  {PyBytes(good), encode_hex(good), PyBytes(<<1>>), PyStr(<<"z", "z">>)}

InitDecode ==
    /\ InitBuilder(EventABIs)
    /\ IdleNormalize
    /\ log_entry \in [topics : SeqsUpTo(TopicValues(event_abi), MaxLogTopics),
                      data : DataValues(event_abi)]
    /\ decoded = NotDone
    /\ IdleTopicSet

\* get_event_data(event_abi, log_entry)
GetEventData ==
    /\ ~decoded.done
    /\ decoded' = Done(get_event_data(event_abi, log_entry))
    /\ UNCHANGED <<log_entry, builder_vars, ntl_vars, topic_set_vars>>

NextDecode == GetEventData

SpecDecode == InitDecode /\ [][NextDecode]_vars

\* ------------------------------------------------------------ construct_event_topic_set

\* dict.get(key, default)
DictGet(d, k, default) ==
    IF HasKey(d, k) THEN d[CHOOSE i \in 1..Len(d) : d[i].key = k].value ELSE default

RECURSIVE product(_)
\* itertools.product(*lists): the tuples in order, the last list running fastest.
product(lists) ==
    IF lists = <<>> THEN << <<>> >>
    ELSE LET rest == product(Tail(lists))
         IN  Concat([i \in 1..Len(Head(lists)) |->
                        [j \in 1..Len(rest) |-> <<Head(lists)[i]>> \o rest[j]]])

\* Mutant: the combination of wildcards is not collapsed.
topic_vector_NoCollapse(event_topic_hex, permutation) == <<event_topic_hex>> \o permutation

\* [event_topic] + list(permutation) if any value is not None, else [event_topic]
topic_vector(event_topic_hex, permutation) ==
    IF \E i \in 1..Len(permutation) : permutation[i] # None
    THEN <<event_topic_hex>> \o permutation
    ELSE <<event_topic_hex>>

\* The topic vectors, or what the call raises.
construct_event_topic_set(abi, arguments_) ==
    IF arguments_.kind = "list" /\ Len(arguments_.list) # Len(abi.inputs)
    THEN [raised |-> "ValueError: the number of arguments must match", value |-> <<>>]
    ELSE
    LET as_dict ==
            IF arguments_.kind = "None" THEN <<>>
            ELSE IF arguments_.kind = "list"
            THEN to_dict([i \in 1..Len(abi.inputs) |->
                     [key |-> abi.inputs[i].name, value |-> PyList(<<arguments_.list[i]>>)]])
            ELSE arguments_.dict
        normalized_args ==
            [i \in 1..Len(as_dict) |->
                [key |-> as_dict[i].key,
                 value |-> IF is_list_like(as_dict[i].value)
                           THEN as_dict[i].value ELSE PyList(<<as_dict[i].value>>)]]
        event_topic_hex == encode_hex(event_abi_to_log_topic(abi))
        indexed == get_indexed_event_inputs(abi)
        zipped_abi_and_args ==
            [i \in 1..Len(indexed) |->
                [arg |-> indexed[i],
                 arg_options |-> DictGet(normalized_args, indexed[i].name, PyList(<<None>>)).items]]
        unencodable ==
            \E i \in 1..Len(zipped_abi_and_args) :
                \E o \in 1..Len(zipped_abi_and_args[i].arg_options) :
                    /\ zipped_abi_and_args[i].arg_options[o] # None
                    /\ ~is_encodable(zipped_abi_and_args[i].arg.type,
                                     zipped_abi_and_args[i].arg_options[o])
        encoded_args ==
            [i \in 1..Len(zipped_abi_and_args) |->
                [o \in 1..Len(zipped_abi_and_args[i].arg_options) |->
                    IF zipped_abi_and_args[i].arg_options[o] = None THEN None
                    ELSE encode_hex(encode_single(zipped_abi_and_args[i].arg.type,
                                                  zipped_abi_and_args[i].arg_options[o]))]]
        permutations == product(encoded_args)
    IN  IF unencodable THEN [raised |-> "EncodingError", value |-> <<>>]
        ELSE [raised |-> "",
              value |-> [j \in 1..Len(permutations) |->
                            topic_vector(event_topic_hex, permutations[j])]]

\* What a caller gives for a parameter of the type: a value, None, or a list
\* of alternatives.
ArgValues(t) ==
    CallValues(t) \cup {None}
        \cup {PyList(alts) : alts \in SeqsUpTo(CallValues(t) \cup {None}, MaxAlt)}

\* The same for a parameter that is not indexed, which the function passes over.
DataArgValues(t) ==
    {None, CHOOSE v \in GoodValues(t) : TRUE, PyList(<<BadValue(t), None>>)}

Absent == [None EXCEPT !.tag = "absent"]

\* The input that a name stands for: the first of that name.
InputNamed(abi, name) ==
    abi.inputs[CHOOSE i \in 1..Len(abi.inputs) :
                   /\ abi.inputs[i].name = name
                   /\ \A j \in 1..(i - 1) : abi.inputs[j].name # name]

\* The arguments given for an event: None, dicts over the input names, and
\* lists of the right length and of wrong ones.
ArgumentsFor(abi) ==
    LET names == get_abi_input_names(abi.inputs)
        keys == {names[i] : i \in 1..Len(names)}
        choices(name) ==
            {Absent} \cup (IF InputNamed(abi, name).indexed
                           THEN ArgValues(InputNamed(abi, name).type)
                           ELSE DataArgValues(InputNamed(abi, name).type))
        all == UNION {choices(name) : name \in keys}
        first(i) == \A j \in 1..(i - 1) : names[j] # names[i]
        dicts == {f \in [keys -> all] : \A name \in keys : f[name] \in choices(name)}
        as_items(f) ==
            [i \in 1..Len(names) |-> [key |-> names[i], value |-> f[names[i]]]]
        positional ==
            {xs \in [1..Len(names) -> UNION {CallValues(abi.inputs[i].type) \cup {None} :
                                                 i \in 1..Len(names)}] :
                \A i \in 1..Len(names) : xs[i] \in CallValues(abi.inputs[i].type) \cup {None}}
    IN  {ArgsNone}
            \cup {ArgsDict(SelectSeq(
                      [i \in 1..Len(names) |->
                          IF first(i) THEN as_items(f)[i] ELSE [key |-> names[i], value |-> Absent]],
                      LAMBDA item : item.value # Absent)) : f \in dicts}
            \cup {ArgsList(xs) : xs \in positional}
            \cup {ArgsList(<<>>), ArgsList([i \in 1..(Len(names) + 1) |-> None])}

InitTopicSet ==
    /\ InitBuilder(EventABIs)
    /\ IdleNormalize
    /\ IdleDecode
    /\ arguments \in ArgumentsFor(event_abi)
    /\ topic_set = NotDone

\* construct_event_topic_set(event_abi, arguments)
ConstructEventTopicSet ==
    /\ ~topic_set.done
    /\ topic_set' = Done(construct_event_topic_set(event_abi, arguments))
    /\ UNCHANGED <<arguments, builder_vars, ntl_vars, decode_vars>>

NextTopicSet == ConstructEventTopicSet

SpecTopicSet == InitTopicSet /\ [][NextTopicSet]_vars

\* ------------------------------------------------------------ specifications

Init == InitBuilder(EventABIs) /\ IdleNormalize /\ IdleDecode /\ IdleTopicSet

Next ==
    \/ MatchSingle
    \/ MatchAny
    \/ SetFromBlock
    \/ SetToBlock
    \/ SetAddress

Spec == Init /\ [][Next]_vars

\* ------------------------------------------------------------ claims: the filters and the builder

\* C1, as stated: in every state of every filter, raw_match_values and
\* encoded_match_values have the same length, and it is at least 1.
C1_EqualLengthAtLeastOne ==
    \A k \in 1..Len(args) :
        /\ Len(args[k].value.raw_match_values) = Len(args[k].value.encoded_match_values)
        /\ Len(args[k].value.raw_match_values) >= 1

\* C1, amended: the two have the same length in every state, and it is at
\* least 1 unless the latest call that returned was match_any with no values,
\* when both are empty.
C1_EqualLength ==
    \A k \in 1..Len(args) :
        LET f == args[k].value
            empty_call == last_call[k].called /\ last_call[k].values = <<>>
        IN  /\ Len(f.raw_match_values) = Len(f.encoded_match_values)
            /\ empty_call => Len(f.raw_match_values) = 0
            /\ ~empty_call => Len(f.raw_match_values) >= 1

\* C1 witness: one filter after match_any(), another after match_any of two values.
C1_Witness ==
    /\ Len(args) = 2
    /\ last_call[1].called /\ last_call[1].values = <<>>
    /\ args[1].value.raw_match_values = <<>>
    /\ args[1].value.encoded_match_values = <<>>
    /\ last_call[2].called /\ Len(last_call[2].values) = 2
    /\ Len(args[2].value.encoded_match_values) = 2

\* The types that are dynamically sized: string, bytes and every array.
DynamicTypes == {"string", "bytes", "uint256[]"}

\* The encoded filter value of a raw value: the hex of the Keccak-256 hash of
\* the ABI encoding for an indexed parameter of a dynamic type, and the hex of
\* the ABI encoding otherwise.
EncodedFilterValue(type, indexed, value) ==
    IF indexed /\ type \in DynamicTypes
    THEN encode_hex(keccak(encode_single(type, value)))
    ELSE encode_hex(encode_single(type, value))

\* C2: once a call on a filter has returned, raw_match_values is the values of
\* the latest such call in the order given, and encoded_match_values[i] is the
\* encoded filter value of raw_match_values[i].
C2_LatestCallDecides ==
    \A k \in 1..Len(args) :
        LET f == args[k].value
        IN  last_call[k].called =>
                /\ f.raw_match_values = last_call[k].values
                /\ Len(f.encoded_match_values) = Len(f.raw_match_values)
                /\ \A i \in 1..Len(f.raw_match_values) :
                       f.encoded_match_values[i] =
                           EncodedFilterValue(f.arg_type, f.is_indexed, f.raw_match_values[i])

\* C2 witness: an indexed filter of a dynamic type and a filter that is not
\* indexed, each holding two different values of its latest call.
C2_Witness ==
    /\ Len(args) = 2
    /\ args[1].value.is_indexed /\ args[1].value.arg_type = "string"
    /\ ~args[2].value.is_indexed /\ args[2].value.arg_type = "string"
    /\ \A k \in 1..2 :
           /\ last_call[k].called
           /\ Len(last_call[k].values) = 2
           /\ last_call[k].values[1] # last_call[k].values[2]
           /\ args[k].value.raw_match_values = last_call[k].values
    /\ args[1].value.encoded_match_values # args[2].value.encoded_match_values

\* The number of inputs of the descriptor that are indexed.
IndexedInputs(abi) == Cardinality({i \in 1..Len(abi.inputs) : abi.inputs[i].indexed})

\* C5, as stated: topics has at most 1 + (indexed inputs) positions with the
\* signature hash first when the event is not anonymous, and at most (indexed
\* inputs) positions, none of them a signature, when it is anonymous.
C5_TopicsBound ==
    /\ topics.raised = ""
    /\ IF event_abi.anonymous
       THEN Len(topics.value.items) <= IndexedInputs(event_abi)
       ELSE /\ Len(topics.value.items) <= 1 + IndexedInputs(event_abi)
            /\ Len(topics.value.items) >= 1
            /\ topics.value.items[1] = encode_hex(event_abi_to_log_topic(event_abi))

\* C5, for the descriptors that are not anonymous (where the code agrees).
C5_TopicsBound_NotAnonymous == ~event_abi.anonymous => C5_TopicsBound

\* C6, as stated: filter_params has no key whose value is None, always has the
\* key topics, and has fromBlock, toBlock or address exactly when the field is
\* set to a value that is not None.
C6_FilterParams ==
    /\ filter_params.raised = ""
    /\ LET d == filter_params.value
           Has(key, field) == HasKey(d, key) <=> field # None
       IN  /\ \A i \in 1..Len(d) : d[i].value # None
           /\ HasKey(d, "topics")
           /\ Has("fromBlock", fromBlock)
           /\ Has("toBlock", toBlock)
           /\ Has("address", address)
           /\ \A i \in 1..Len(d) :
                  d[i].value = CASE d[i].key = "topics" -> topics.value
                                 [] d[i].key = "fromBlock" -> fromBlock
                                 [] d[i].key = "toBlock" -> toBlock
                                 [] d[i].key = "address" -> address

\* C6, for the descriptors that are not anonymous (where the code agrees).
C6_FilterParams_NotAnonymous == ~event_abi.anonymous => C6_FilterParams

\* The inputs of the descriptor that are not indexed, in declaration order.
NonIndexedInputs(abi) == SelectSeq(abi.inputs, LAMBDA input : ~input.indexed)

\* The filter that args holds under the name.
FilterNamed(name) == args[CHOOSE k \in 1..Len(args) : args[k].key = name].value

\* C11, as stated: data_arguments returns without raising a sequence with one
\* entry per input that is not indexed, in declaration order, each entry the
\* current encoded_match_values of that input's filter; no indexed filter
\* appears in it.
C11_DataArguments ==
    /\ data_arguments.raised = ""
    /\ LET inputs == NonIndexedInputs(event_abi)
           entries == data_arguments.value.items
       IN  /\ Len(entries) = Len(inputs)
           /\ \A i \in 1..Len(inputs) :
                  /\ ~FilterNamed(inputs[i].name).is_indexed
                  /\ entries[i] = PyList(FilterNamed(inputs[i].name).encoded_match_values)

\* C11, for the descriptors all of whose inputs are indexed (where the code
\* agrees: the generator runs over nothing and the result is the empty tuple).
C11_DataArguments_AllIndexed ==
    NonIndexedInputs(event_abi) = <<>> => C11_DataArguments

\* With an input that is not indexed, data_arguments raises AttributeError,
\* whatever calls were made on the filters.
C11_RaisesWithDataInput ==
    NonIndexedInputs(event_abi) # <<>> => data_arguments.raised = "AttributeError"

\* ------------------------------------------------------------ claims: get_event_data

\* An indexed input and an input that is not indexed have the same name.
DuplicateNamed(abi) ==
    \E i, j \in 1..Len(abi.inputs) :
        /\ abi.inputs[i].indexed
        /\ ~abi.inputs[j].indexed
        /\ abi.inputs[i].name = abi.inputs[j].name

MismatchedABIErrors ==
    {"MismatchedABI: Expected non-anonymous event to have 1 or more topics",
     "MismatchedABI: The event signature did not match the provided ABI"}

DuplicateNameError == "ValueError: Invalid Event ABI: duplicated argument names"

TopicCountError == "ValueError: Expected log topics"

\* The log passes the signature check, if one is made.
SignatureOk ==
    \/ event_abi.anonymous
    \/ log_entry.topics # <<>> /\ log_entry.topics[1] = event_abi_to_log_topic(event_abi)

\* The topics left for the indexed arguments are as many as the indexed inputs.
TopicCountOk ==
    (IF event_abi.anonymous THEN Len(log_entry.topics) ELSE Len(log_entry.topics) - 1)
        = IndexedInputs(event_abi)

\* The data is bytes, or a str of "0x" and hex digits.
DataIsBytesOrHex ==
    \/ log_entry.data.tag = "bytes"
    \/ /\ log_entry.data.tag = "str"
       /\ Len(log_entry.data.s) >= 2
       /\ log_entry.data.s[1] = "0" /\ log_entry.data.s[2] = "x"
       /\ \A i \in 3..Len(log_entry.data.s) :
              \E d \in 0..15 : log_entry.data.s[i] = HexDigits[d + 1]

\* C7, as stated: a descriptor whose indexed and data names intersect fails
\* with the duplicate-name error and no other, whatever the log.
C7_AlwaysDuplicateNameError ==
    (decoded.done /\ DuplicateNamed(event_abi)) => decoded.raised = DuplicateNameError

\* C7, amended: such a descriptor always fails get_event_data, and the error
\* is the duplicate-name error exactly when the log passes the checks made
\* before it (signature, topic count, data convertible to bytes); otherwise it
\* is the error of the first of those checks that fails.
C7_DuplicateNameAfterLogChecks ==
    (decoded.done /\ DuplicateNamed(event_abi)) =>
        /\ decoded.raised # ""
        /\ decoded.raised = DuplicateNameError
               <=> (SignatureOk /\ TopicCountOk /\ DataIsBytesOrHex)
        /\ ~SignatureOk => decoded.raised \in MismatchedABIErrors
        /\ (SignatureOk /\ ~TopicCountOk) => decoded.raised = TopicCountError
        /\ (SignatureOk /\ TopicCountOk /\ ~DataIsBytesOrHex)
               => decoded.raised = "ValueError: not a hex string"

\* C7 witness: the duplicate-name error for a log whose topics pass and whose
\* data is too short to decode.
C7_Witness ==
    /\ decoded.done
    /\ DuplicateNamed(event_abi)
    /\ ~event_abi.anonymous
    /\ Len(log_entry.topics) = 2
    /\ log_entry.data = PyBytes(<<1>>)
    /\ decoded.raised = DuplicateNameError

\* C8: for a descriptor that is not anonymous, a log with no topics or with a
\* first topic that is not the signature hash raises MismatchedABI, whatever
\* the topic count, the names and the data; for an anonymous descriptor
\* MismatchedABI is never raised and all topics count as indexed-argument
\* topics.
C8_SignatureCheckedFirst ==
    decoded.done =>
        /\ (~event_abi.anonymous /\ log_entry.topics = <<>>)
               => decoded.raised = "MismatchedABI: Expected non-anonymous event to have 1 or more topics"
        /\ (~event_abi.anonymous /\ log_entry.topics # <<>>
                /\ log_entry.topics[1] # event_abi_to_log_topic(event_abi))
               => decoded.raised = "MismatchedABI: The event signature did not match the provided ABI"
        /\ decoded.raised \in MismatchedABIErrors => ~SignatureOk
        /\ event_abi.anonymous =>
               /\ decoded.raised \notin MismatchedABIErrors
               /\ decoded.raised = TopicCountError
                      <=> Len(log_entry.topics) # IndexedInputs(event_abi)
        /\ (~event_abi.anonymous /\ SignatureOk) =>
               (decoded.raised = TopicCountError
                    <=> Len(log_entry.topics) - 1 # IndexedInputs(event_abi))

\* C8 witness: the signature mismatch is what is raised for a log that also has
\* too many topics, colliding names and data that is no hex.
C8_Witness ==
    /\ decoded.done
    /\ ~event_abi.anonymous
    /\ DuplicateNamed(event_abi)
    /\ Len(log_entry.topics) = 3
    /\ log_entry.topics[1] = Word32(1)
    /\ log_entry.data = PyStr(<<"z", "z">>)
    /\ decoded.raised = "MismatchedABI: The event signature did not match the provided ABI"

\* C8 witness, continued: an anonymous log whose first topic is no signature decodes.
C8_AnonymousDecodes ==
    /\ decoded.done
    /\ event_abi.anonymous
    /\ log_entry.topics = <<Word32(1)>>
    /\ decoded.raised = ""

\* ------------------------------------------------------------ claims: construct_event_topic_set

\* The position of the last input of the name.
LastNamed(abi, name) ==
    CHOOSE i \in 1..Len(abi.inputs) :
        /\ abi.inputs[i].name = name
        /\ \A j \in (i + 1)..Len(abi.inputs) : abi.inputs[j].name # name

\* The alternatives given for a parameter: its list, its one value, the one
\* value at its position, or the wildcard when nothing is given for it.
Alternatives(input) ==
    IF arguments.kind = "list" THEN <<arguments.list[LastNamed(event_abi, input.name)]>>
    ELSE IF arguments.kind = "dict" /\ HasKey(arguments.dict, input.name)
    THEN LET given == DictGet(arguments.dict, input.name, None)
         IN  IF given.tag = "list" THEN given.items ELSE <<given>>
    ELSE <<None>>

\* The indexed inputs in declaration order.
IndexedSeq == SelectSeq(event_abi.inputs, LAMBDA input : input.indexed)

\* The alternative of the i-th indexed parameter in the j-th element of the
\* cartesian product, the last parameter running fastest.
Combination(j, i) ==
    LET lens == [k \in 1..Len(IndexedSeq) |-> Len(Alternatives(IndexedSeq[k]))]
        faster == Product(SubSeq(lens, i + 1, Len(lens)))
    IN  Alternatives(IndexedSeq[i])[(((j - 1) \div faster) % lens[i]) + 1]

\* C9: when construct_event_topic_set returns, it returns one vector for each
\* element of the cartesian product of the indexed parameters' alternatives,
\* in order; each starts with the signature topic; the element of wildcards
\* only gives the signature topic alone, and any other gives one entry per
\* indexed parameter, None for a wildcard and else a topic that stands for
\* that alternative alone.
C9_CartesianProduct ==
    (topic_set.done /\ topic_set.raised = "") =>
        LET n == Len(IndexedSeq)
            vectors == topic_set.value
            signature == encode_hex(event_abi_to_log_topic(event_abi))
            wild(j) == \A i \in 1..n : Combination(j, i) = None
        IN  /\ Len(vectors) = Product([k \in 1..n |-> Len(Alternatives(IndexedSeq[k]))])
            /\ \A j \in 1..Len(vectors) :
                   /\ vectors[j][1] = signature
                   /\ wild(j) => vectors[j] = <<signature>>
                   /\ ~wild(j) =>
                          /\ Len(vectors[j]) = 1 + n
                          /\ \A i \in 1..n :
                                 (vectors[j][i + 1] = None) <=> (Combination(j, i) = None)
            /\ \A j1, j2 \in 1..Len(vectors) : \A i \in 1..n :
                   (~wild(j1) /\ ~wild(j2)) =>
                       ((vectors[j1][i + 1] = vectors[j2][i + 1])
                            <=> (Combination(j1, i) = Combination(j2, i)))

\* C9 witness: two indexed parameters with two alternatives each, a wildcard
\* among them, give four vectors, the last the signature topic alone.
C9_Witness ==
    /\ topic_set.done
    /\ topic_set.raised = ""
    /\ Len(IndexedSeq) = 2
    /\ arguments.kind = "dict"
    /\ Alternatives(IndexedSeq[1]) = <<PyInt(258), None>>
    /\ Alternatives(IndexedSeq[2]) = <<PyStr(<<"p", "i">>), None>>
    /\ Len(topic_set.value) = 4
    /\ Len(topic_set.value[1]) = 3
    /\ Len(topic_set.value[4]) = 1

\* C10, as stated: every topic construct_event_topic_set emits for an
\* alternative of an indexed parameter is the encoded_match_values entry an
\* indexed ArgumentFilter of the same type holds after match_single of the
\* same value (the hash, for a dynamic type).
C10_SameEncodingAsArgumentFilter ==
    (topic_set.done /\ topic_set.raised = "") =>
        \A j \in 1..Len(topic_set.value) : \A i \in 1..Len(IndexedSeq) :
            (Len(topic_set.value[j]) > 1 /\ Combination(j, i) # None) =>
                topic_set.value[j][i + 1] =
                    match_single(ArgumentFilter(IndexedSeq[i].type, IndexedSeq[i].name, TRUE),
                                 Combination(j, i)).self.encoded_match_values[1]

\* C10, for the indexed parameters of a static type (where the code agrees).
C10_SameEncoding_StaticTypes ==
    (topic_set.done /\ topic_set.raised = "") =>
        \A j \in 1..Len(topic_set.value) : \A i \in 1..Len(IndexedSeq) :
            (Len(topic_set.value[j]) > 1 /\ Combination(j, i) # None
                    /\ IndexedSeq[i].type \notin DynamicTypes) =>
                topic_set.value[j][i + 1] =
                    match_single(ArgumentFilter(IndexedSeq[i].type, IndexedSeq[i].name, TRUE),
                                 Combination(j, i)).self.encoded_match_values[1]

\* ------------------------------------------------------------ claims: normalize_topic_list

\* No position of the sequence is a list that holds a list.
IsFlat(seq) ==
    \A i \in 1..Len(seq) :
        \A j \in 1..Len(seq[i].items) : seq[i].items[j].tag # "list"

\* C3, as stated: normalize_topic_list is idempotent on every sequence of
\* positions, lists nested inside lists included.
C3_IdempotentOnAll == ntl_twice.done => ntl_twice.value = ntl_once.value

\* C3, amended: normalize_topic_list is idempotent on every sequence whose
\* positions are a wildcard, a single value or a list of values and wildcards
\* (no list inside a list).
C3_IdempotentOnFlat ==
    (ntl_twice.done /\ IsFlat(ntl_seq)) => ntl_twice.value = ntl_once.value

\* C3 witness: a flat sequence with a singleton list and two trailing
\* wildcards, normalised twice.
C3_Witness ==
    /\ ntl_twice.done
    /\ IsFlat(ntl_seq)
    /\ Len(ntl_seq) = 3
    /\ ntl_seq[1] = PyList(<<HexA>>)
    /\ ntl_seq[2] = None
    /\ ntl_seq[3] = PyList(<<None>>)
    /\ ntl_once.value = <<HexA>>

\* What unwrapping makes of one position.
Unwrapped(p) == IF p.tag = "list" /\ Len(p.items) = 1 THEN p.items[1] ELSE p

\* C4: the result of normalize_topic_list is a prefix of the unwrapped
\* sequence (so every interior wildcard and every longer list stays at its
\* index), it is empty or ends in a position that is no wildcard, and all that
\* was cut off is wildcards, a trailing [None] among them.
C4_TrimsTrailingWildcards ==
    ntl_once.done =>
        LET r == ntl_once.value
            u == [i \in 1..Len(ntl_seq) |-> Unwrapped(ntl_seq[i])]
        IN  /\ Len(r) <= Len(u)
            /\ \A i \in 1..Len(r) : r[i] = u[i]
            /\ r = <<>> \/ r[Len(r)] # None
            /\ \A i \in (Len(r) + 1)..Len(u) : u[i] = None

\* C4 witness: an interior wildcard is kept before a longer list, and a
\* trailing [None] is cut.
C4_Witness ==
    /\ ntl_once.done
    /\ Len(ntl_seq) = 3
    /\ ntl_seq[1] = None
    /\ ntl_seq[2] = PyList(<<HexA, HexB>>)
    /\ ntl_seq[3] = PyList(<<None>>)
    /\ ntl_once.value = <<None, PyList(<<HexA, HexB>>)>>
====
